---- MODULE Spec2Model ----
(***************************************************************************)
(* Model of mzy-repack.py: the main loop over the command-line files, the  *)
(* unpack step (ebook-convert -> converted.zip -> numbered image files)    *)
(* and the repack step (kcc-c2e.exe).  Strings and paths are sequences of  *)
(* one-character strings so that lower(), endswith(), sorted(),            *)
(* Path.suffix / .stem / .name / .parent and the 04d format are computed   *)
(* the way Python computes them.                                           *)
(***************************************************************************)
EXTENDS Integers, Sequences, FiniteSets, TLC

\* ------------------------------------------------------------------ bounds
MaxFiles == 2
MaxEntries == 2

\* ------------------------------------------------------- program constants
KCC_DEVICE_PROFILE == <<"K", "P", "W", "5">>
REPACK_AFTER_UNPACK == TRUE
KCC_EXE_FILENAME == <<"k", "c", "c", "-", "c", "2", "e", ".", "e", "x", "e">>
ImageExts == { <<".", "j", "p", "g">>, <<".", "j", "p", "e", "g">>,
               <<".", "p", "n", "g">>, <<".", "g", "i", "f">> }
PadWidth == 4

\* ---------------------------------------------------------- str primitives
\* code points of the characters that occur in the modelled names
Ord(c) ==
  CASE c = "." -> 46 [] c = "/" -> 47
    [] c = "0" -> 48 [] c = "1" -> 49 [] c = "2" -> 50 [] c = "3" -> 51
    [] c = "4" -> 52 [] c = "5" -> 53 [] c = "6" -> 54 [] c = "7" -> 55
    [] c = "8" -> 56 [] c = "9" -> 57
    [] c = "B" -> 66 [] c = "G" -> 71 [] c = "N" -> 78 [] c = "P" -> 80
    [] c = "a" -> 97 [] c = "b" -> 98 [] c = "g" -> 103 [] c = "i" -> 105
    [] c = "j" -> 106 [] c = "n" -> 110 [] c = "p" -> 112 [] c = "t" -> 116
    [] c = "x" -> 120
    [] OTHER -> 128

LowerChar(c) ==
  CASE c = "B" -> "b" [] c = "G" -> "g" [] c = "N" -> "n" [] c = "P" -> "p"
    [] OTHER -> c

\* str.lower()
Lower(s) == [k \in 1..Len(s) |-> LowerChar(s[k])]

\* str.endswith(suffix)
EndsWith(s, suf) ==
  /\ Len(s) >= Len(suf)
  /\ SubSeq(s, Len(s) - Len(suf) + 1, Len(s)) = suf

\* the filter of the list comprehension
IsImage(name) == \E e \in ImageExts : EndsWith(Lower(name), e)

\* str < str : lexicographic by code point, a proper prefix is smaller
RECURSIVE StrLess(_, _)
StrLess(a, b) ==
  IF b = <<>> THEN FALSE
  ELSE IF a = <<>> THEN TRUE
  ELSE IF Ord(Head(a)) # Ord(Head(b)) THEN Ord(Head(a)) < Ord(Head(b))
  ELSE StrLess(Tail(a), Tail(b))

\* sorted(): stable insertion into an already sorted list
RECURSIVE Insert(_, _)
Insert(x, s) ==
  IF s = <<>> THEN <<x>>
  ELSE IF StrLess(x, Head(s)) THEN <<x>> \o s
  ELSE <<Head(s)>> \o Insert(x, Tail(s))

RECURSIVE Sorted(_)
Sorted(s) == IF s = <<>> THEN <<>> ELSE Insert(s[Len(s)], Sorted(SubSeq(s, 1, Len(s) - 1)))

\* s.rfind(c), 1-based, 0 when absent
RECURSIVE RFind(_, _)
RFind(s, c) ==
  IF s = <<>> THEN 0
  ELSE IF s[Len(s)] = c THEN Len(s)
  ELSE RFind(SubSeq(s, 1, Len(s) - 1), c)

\* ------------------------------------------------------------ pathlib.Path
Dot == <<".">>

\* Path(p).name : the last component
PathName(p) == SubSeq(p, RFind(p, "/") + 1, Len(p))

\* Path(p).parent : everything before the last separator, "." when none
PathParent(p) == IF RFind(p, "/") = 0 THEN Dot ELSE SubSeq(p, 1, RFind(p, "/") - 1)

\* Path(p).suffix : from the last dot of the name on, unless that dot is the
\* first or the last character of the name
PathSuffix(p) ==
  LET n == PathName(p)
      d == RFind(n, ".")
  IN IF d > 1 /\ d < Len(n) THEN SubSeq(n, d, Len(n)) ELSE <<>>

\* Path(p).stem
PathStem(p) ==
  LET n == PathName(p)
  IN SubSeq(n, 1, Len(n) - Len(PathSuffix(p)))

\* parent / child
PathJoin(parent, child) == IF parent = Dot THEN child ELSE parent \o <<"/">> \o child

\* ------------------------------------------------------------ f"{i:04d}"
DigitChar(d) ==
  CASE d = 0 -> "0" [] d = 1 -> "1" [] d = 2 -> "2" [] d = 3 -> "3" [] d = 4 -> "4"
    [] d = 5 -> "5" [] d = 6 -> "6" [] d = 7 -> "7" [] d = 8 -> "8" [] OTHER -> "9"

RECURSIVE Decimal(_)
Decimal(n) == IF n < 10 THEN <<DigitChar(n)>> ELSE Decimal(n \div 10) \o <<DigitChar(n % 10)>>

RECURSIVE ZeroPad(_, _)
ZeroPad(s, w) == IF Len(s) >= w THEN s ELSE ZeroPad(<<"0">> \o s, w)

Format04d(n) == ZeroPad(Decimal(n), PadWidth)

\* dest_filename = f"{i:04d}{extension}"
DestFilename(k, image_file_in_zip) == Format04d(k) \o PathSuffix(image_file_in_zip)

\* ------------------------------------------------------------ zipfile.ZipFile
\* entry names the converter may put into converted.zip, and their contents
EntryNames == { <<"b", ".", "j", "p", "g">>, <<"B", ".", "P", "N", "G">>,
                <<"i", "/", ".", "g", "i", "f">>, <<"a", ".", "t", "x", "t">> }
Entries == { [name |-> n, data |-> "x"] : n \in EntryNames }
             \cup { [name |-> <<"b", ".", "j", "p", "g">>, data |-> "y"] }
Archives == UNION { [1..n -> Entries] : n \in 0..MaxEntries }

\* ZipFile.namelist(): the names in archive order, duplicates included
Namelist(a) == [k \in 1..Len(a) |-> a[k].name]

\* ZipFile.read(name): NameToInfo keeps the last entry of a name
ZipRead(a, name) ==
  LET last == CHOOSE k \in 1..Len(a) :
                /\ a[k].name = name
                /\ \A m \in (k+1)..Len(a) : a[m].name # name
  IN a[last].data

\* image_files = [f for f in zip_ref.namelist() if f.lower().endswith(...)]
ImageFiles(a) == SelectSeq(Namelist(a), IsImage)

\* what ebook-convert can leave at temp_zip_path
NoZip == [kind |-> "absent", entries |-> <<>>]
Garbage == [kind |-> "garbage", entries |-> <<>>]
ZipOf(a) == [kind |-> "zip", entries |-> a]
ConverterOutputs == {NoZip, Garbage} \cup { ZipOf(a) : a \in Archives }

\* ------------------------------------------------------------ command line
Mobi == <<".", "m", "o", "b", "i">>
InputPaths == { <<"l", "/", "a">> \o Mobi, <<"l", "/", "a">> }
FileLists == UNION { [1..n -> InputPaths] : n \in 0..MaxFiles }

\* output_dir = mobi_path.parent / mobi_path.stem
OutputDir(mobi_path) == PathJoin(PathParent(mobi_path), PathStem(mobi_path))
OutDirs == { OutputDir(p) : p \in InputPaths }

\* ------------------------------------------------------------ file system
EmptyDir == [kind |-> "dir", files |-> <<>>]
Absent == [kind |-> "absent", files |-> <<>>]
PlainFile == [kind |-> "file", files |-> <<>>]
StaleName == <<"0", "0", "0", "2", ".", "j", "p", "g">>
StaleDir == [kind |-> "dir", files |-> (StaleName :> "x")]
InitNodes == {Absent, EmptyDir, StaleDir, PlainFile}

\* open(dest_path, 'wb').write(image_data)
WriteFile(node, dest, data) == [node EXCEPT !.files = (dest :> data) @@ @]

\* ------------------------------------------------------------ return values
Pending == [kind |-> "pending", path |-> <<>>]
None == [kind |-> "None", path |-> <<>>]
Raised == [kind |-> "raised", path |-> <<>>]
Folder(p) == [kind |-> "dir", path |-> p]

NoTemp == [exists |-> FALSE, zip |-> NoZip]

ShouldRepack_Always(r) == REPACK_AFTER_UNPACK

\* "if unpacked_folder and REPACK_AFTER_UNPACK"
ShouldRepack(r) == r.kind = "dir" /\ REPACK_AFTER_UNPACK

RunsKcc_Always(isfile) == TRUE

\* "if not kcc_path.is_file(): ... return" : the packer runs only past this
RunsKcc(isfile) == isfile

MoreToExtract_OffByOne(k, list) == k < Len(list)

\* the extraction loop has a k-th element to process
MoreToExtract(k, list) == k <= Len(list)

KccCommand_Swapped(kcc_path, image_folder_path) ==
  << kcc_path,
     <<"-", "p">>, KCC_DEVICE_PROFILE,
     <<"-", "m">>,
     <<"-", "-", "m", "a", "n", "g", "a", "-", "s", "t", "y", "l", "e">>,
     <<"-", "t">>, PathParent(image_folder_path),
     <<"-", "o">>, PathName(image_folder_path),
     image_folder_path >>

\* the argument list built in repack_with_kcc
KccCommand(kcc_path, image_folder_path) ==
  << kcc_path,
     <<"-", "p">>, KCC_DEVICE_PROFILE,
     <<"-", "m">>,
     <<"-", "-", "m", "a", "n", "g", "a", "-", "s", "t", "y", "l", "e">>,
     <<"-", "t">>, PathName(image_folder_path),
     <<"-", "o">>, PathParent(image_folder_path),
     image_folder_path >>

ScriptDir == <<"s">>
KccPath == PathJoin(ScriptDir, KCC_EXE_FILENAME)

NoStat == [unpack |-> 0, which |-> "unchecked", conv |-> 0, repack |-> 0,
           kccfile |-> "unchecked", kcc |-> 0, ret |-> "pending"]

VARIABLES
  files,        \* sys.argv[1:]
  idx,          \* the loop variable i of the main loop
  pc,           \* where the program is
  fs,           \* the output directories on disk
  tmp,          \* the temporary directory and converted.zip in it
  converted,    \* what ebook-convert wrote for the current file
  image_files,  \* sorted(image_files) of the current unpack call
  i,            \* the loop variable of the extraction loop
  unpacked,     \* unpacked_folder
  why,          \* the exit path the current unpack call took
  wrote,        \* the files the current unpack call has written
  printed,      \* the messages printed for the current file
  stat,         \* per input file: calls made and tools found
  order,        \* the files unpack was called on, in call order
  kccCmd,       \* the last argument list handed to subprocess.run by repack
  produced      \* archive entries produced by the converter so far

vars == <<files, idx, pc, fs, tmp, converted, image_files, i, unpacked, why,
          wrote, printed, stat, order, kccCmd, produced>>

Init ==
  /\ files \in FileLists
  /\ idx = 1
  /\ pc = "main"
  /\ fs \in [OutDirs -> InitNodes]
  /\ tmp = NoTemp
  /\ converted = NoZip
  /\ image_files = <<>>
  /\ i = 0
  /\ unpacked = Pending
  /\ why = "none"
  /\ wrote = <<>>
  /\ printed = <<>>
  /\ stat = [k \in 1..Len(files) |-> NoStat]
  /\ order = <<>>
  /\ kccCmd = <<>>
  /\ produced = 0

ExitTempDir_LeakOnRaise(how) == IF how = "raise" THEN tmp ELSE NoTemp

\* leaving "with tempfile.TemporaryDirectory()", by return or by exception,
\* removes the directory and everything in it
ExitTempDir(how) == NoTemp

mobi_path == files[idx]
output_dir == OutputDir(mobi_path)

\* return from unpack_comic_with_calibre
Return(r, reason, msgs) ==
  /\ unpacked' = r
  /\ why' = reason
  /\ printed' = printed \o msgs
  /\ pc' = "returned"

\* an exception nobody catches: traceback, the interpreter exits
Uncaught(reason) ==
  /\ unpacked' = Raised
  /\ why' = reason
  /\ printed' = Append(printed, "traceback")
  /\ pc' = "crashed"

\* unpack goes on to its next statement
Goto(label, msgs) ==
  /\ pc' = label
  /\ printed' = printed \o msgs
  /\ UNCHANGED <<unpacked, why>>

\* files_to_process = sys.argv[1:]; usage text or the loop
Main ==
  /\ pc = "main"
  /\ IF files = <<>>
     THEN pc' = "finish" /\ printed' = <<"usage">>
     ELSE pc' = "loop" /\ printed' = <<"detected">>
  /\ UNCHANGED <<files, idx, fs, tmp, converted, image_files, i, unpacked, why,
                 wrote, stat, order, kccCmd, produced>>

\* for i, file_path_str in enumerate(files_to_process, 1): ... unpack(...)
LoopHead ==
  /\ pc = "loop"
  /\ IF idx <= Len(files)
     THEN /\ pc' = "which"
          /\ printed' = <<"processing">>
          /\ stat' = [stat EXCEPT ![idx].unpack = @ + 1]
          /\ order' = Append(order, idx)
          /\ unpacked' = Pending
     ELSE /\ pc' = "finish"
          /\ printed' = <<"all_done">>
          /\ UNCHANGED <<stat, order, unpacked>>
  /\ UNCHANGED <<files, idx, fs, tmp, converted, image_files, i, why, wrote,
                 kccCmd, produced>>

\* if not shutil.which("ebook-convert"): ... return None
Which ==
  /\ pc = "which"
  /\ \E found \in BOOLEAN :
       IF found
       THEN /\ stat' = [stat EXCEPT ![idx].which = "found"]
            /\ Goto("mkdir", <<>>)
       ELSE /\ stat' = [stat EXCEPT ![idx].which = "missing"]
            /\ Return(None, "no_tool", <<"no_ebook_convert">>)
  /\ UNCHANGED <<files, idx, fs, tmp, converted, image_files, i, wrote, order,
                 kccCmd, produced>>

\* output_dir.mkdir(parents=True, exist_ok=True) / except OSError: return None
Mkdir ==
  /\ pc = "mkdir"
  /\ \/ /\ fs[output_dir].kind = "dir"
        /\ fs' = fs
        /\ Goto("mktemp", <<"dir_created">>)
     \/ /\ fs[output_dir].kind = "absent"
        /\ fs' = [fs EXCEPT ![output_dir] = EmptyDir]
        /\ Goto("mktemp", <<"dir_created">>)
     \/ /\ fs[output_dir].kind \in {"file", "absent"}
        /\ fs' = fs
        /\ Return(None, "mkdir", <<>>)
  /\ UNCHANGED <<files, idx, tmp, converted, image_files, i, wrote, stat, order,
                 kccCmd, produced>>

\* with tempfile.TemporaryDirectory() as temp_dir:
MkTemp ==
  /\ pc = "mktemp"
  /\ \/ /\ tmp' = [exists |-> TRUE, zip |-> NoZip]
        /\ Goto("convert", <<"calling_calibre">>)
     \/ /\ tmp' = tmp
        /\ Uncaught("mktemp")
  /\ UNCHANGED <<files, idx, fs, converted, image_files, i, wrote, stat, order,
                 kccCmd, produced>>

\* subprocess.run(["ebook-convert", mobi, zip], check=True, ...) / except Exception
Convert ==
  /\ pc = "convert"
  /\ stat' = [stat EXCEPT ![idx].conv = @ + 1]
  /\ \/ \E out \in ConverterOutputs :
          /\ produced + Len(out.entries) <= MaxEntries
          /\ produced' = produced + Len(out.entries)
          /\ converted' = out
          /\ tmp' = [tmp EXCEPT !.zip = out]
          /\ Goto("open", <<"calibre_ok">>)
     \/ /\ UNCHANGED <<converted, produced>>
        /\ tmp' = ExitTempDir("return")
        /\ Return(None, "convert", <<"calibre_failed">>)
  /\ UNCHANGED <<files, idx, fs, image_files, i, wrote, order, kccCmd>>

\* with zipfile.ZipFile(temp_zip_path, 'r') as zip_ref: filter, empty check
OpenZip ==
  /\ pc = "open"
  /\ CASE tmp.zip.kind = "absent" ->
            /\ tmp' = ExitTempDir("raise")
            /\ Uncaught("zip_missing")
            /\ UNCHANGED <<image_files, i>>
       [] tmp.zip.kind = "garbage" ->
            /\ tmp' = ExitTempDir("return")
            /\ Return(None, "bad_zip", <<"extracting", "bad_zip">>)
            /\ UNCHANGED <<image_files, i>>
       [] OTHER ->
            IF ImageFiles(tmp.zip.entries) = <<>>
            THEN /\ tmp' = ExitTempDir("return")
                 /\ Return(None, "no_images", <<"extracting", "no_images">>)
                 /\ UNCHANGED <<image_files, i>>
            ELSE /\ image_files' = Sorted(ImageFiles(tmp.zip.entries))
                 /\ i' = 1
                 /\ tmp' = tmp
                 /\ Goto("extract", <<"extracting">>)
  /\ UNCHANGED <<files, idx, fs, converted, wrote, stat, order, kccCmd, produced>>

\* one iteration of "for i, image_file_in_zip in enumerate(sorted(image_files), 1)"
\* or, after the last one, the success return
Extract ==
  /\ pc = "extract"
  /\ IF MoreToExtract(i, image_files)
     THEN LET image_file_in_zip == image_files[i]
              image_data == ZipRead(tmp.zip.entries, image_file_in_zip)
              dest_filename == DestFilename(i, image_file_in_zip)
          IN \/ /\ fs' = [fs EXCEPT ![output_dir] = WriteFile(@, dest_filename, image_data)]
                /\ wrote' = Append(wrote, [dest |-> dest_filename,
                                           src |-> image_file_in_zip,
                                           data |-> image_data])
                /\ i' = i + 1
                /\ UNCHANGED <<tmp, unpacked, why, printed, pc>>
             \/ \* zip_ref.read raises BadZipFile (bad CRC-32, bad header)
                /\ tmp' = ExitTempDir("return")
                /\ Return(None, "bad_zip_read", <<"bad_zip">>)
                /\ UNCHANGED <<fs, wrote, i>>
             \/ \* zip_ref.read raises something else (zlib.error, RuntimeError)
                /\ tmp' = ExitTempDir("raise")
                /\ Uncaught("read_error")
                /\ UNCHANGED <<fs, wrote, i>>
             \/ \* open() or write() raises OSError
                /\ tmp' = ExitTempDir("raise")
                /\ Uncaught("write_error")
                /\ UNCHANGED <<fs, wrote, i>>
     ELSE /\ tmp' = ExitTempDir("return")
          /\ Return(Folder(output_dir), "ok", <<"extract_ok">>)
          /\ UNCHANGED <<fs, wrote, i>>
  /\ UNCHANGED <<files, idx, converted, image_files, stat, order, kccCmd, produced>>

\* if unpacked_folder and REPACK_AFTER_UNPACK: repack_with_kcc(unpacked_folder)
AfterUnpack ==
  /\ pc = "returned"
  /\ IF ShouldRepack(unpacked)
     THEN /\ pc' = "repack"
          /\ stat' = [stat EXCEPT ![idx].ret = unpacked.kind, ![idx].repack = @ + 1]
          /\ printed' = Append(printed, "kcc_stage")
     ELSE /\ pc' = "report"
          /\ stat' = [stat EXCEPT ![idx].ret = unpacked.kind]
          /\ printed' = printed
  /\ UNCHANGED <<files, idx, fs, tmp, converted, image_files, i, unpacked, why,
                 wrote, order, kccCmd, produced>>

\* repack_with_kcc: locate the executable, build the command, run it
Repack ==
  /\ pc = "repack"
  /\ \E isfile \in BOOLEAN :
       LET seen == IF isfile THEN "found" ELSE "missing"
       IN IF RunsKcc(isfile)
          THEN \E outcome \in {"mobi_found", "mobi_not_found", "kcc_failed",
                                "kcc_unknown_error"} :
                 /\ stat' = [stat EXCEPT ![idx].kccfile = seen, ![idx].kcc = @ + 1]
                 /\ kccCmd' = KccCommand(KccPath, unpacked.path)
                 /\ printed' = printed \o <<"kcc_detected", outcome>>
          ELSE /\ stat' = [stat EXCEPT ![idx].kccfile = seen]
               /\ printed' = Append(printed, "no_kcc")
               /\ kccCmd' = kccCmd
  /\ pc' = "report"
  /\ UNCHANGED <<files, idx, fs, tmp, converted, image_files, i, unpacked, why,
                 wrote, order, produced>>

\* the separator line, then the next file; the locals of the finished
\* iteration are dead from here on
Report ==
  /\ pc = "report"
  /\ printed' = Append(printed, "separator")
  /\ idx' = idx + 1
  /\ pc' = "loop"
  /\ converted' = NoZip
  /\ image_files' = <<>>
  /\ i' = 0
  /\ wrote' = <<>>
  /\ why' = "none"
  /\ UNCHANGED <<files, fs, tmp, unpacked, stat, order, kccCmd, produced>>

\* print("press Enter"); input()
Finish ==
  /\ pc = "finish"
  /\ pc' = "done"
  /\ printed' = Append(printed, "press_enter")
  /\ UNCHANGED <<files, idx, fs, tmp, converted, image_files, i, unpacked, why,
                 wrote, stat, order, kccCmd, produced>>

Next ==
  \/ Main
  \/ LoopHead
  \/ Which
  \/ Mkdir
  \/ MkTemp
  \/ Convert
  \/ OpenZip
  \/ Extract
  \/ AfterUnpack
  \/ Repack
  \/ Report
  \/ Finish

Spec == Init /\ [][Next]_vars

TypeOK ==
  /\ pc \in {"main", "loop", "which", "mkdir", "mktemp", "convert", "open", "extract",
             "returned", "repack", "report", "finish", "done", "crashed"}
  /\ idx \in 1..(Len(files) + 1)
  /\ unpacked.kind \in {"pending", "None", "dir", "raised"}

\* ====================================================================
\* Properties
\* ====================================================================
Printed(msg) == \E k \in 1..Len(printed) : printed[k] = msg

\* unpack_comic_with_calibre has just returned to the main loop
UnpackReturned == pc = "returned"

\* the converter exited with status 0 for the current file
ConverterSucceeded == Printed("calibre_ok")

\* N: the matching entries of the archive the converter wrote
MatchCount == Len(ImageFiles(converted.entries))

\* the recognised extension a matching name ends in, in the name's own casing
MatchedExt(name) ==
  LET e == CHOOSE x \in ImageExts : EndsWith(Lower(name), x)
  IN SubSeq(name, Len(name) - Len(e) + 1, Len(name))

\* matching entries (name and bytes), ordered by name, archive order among equals
RECURSIVE InsertEntry(_, _)
InsertEntry(x, s) ==
  IF s = <<>> THEN <<x>>
  ELSE IF StrLess(x.name, Head(s).name) THEN <<x>> \o s
  ELSE <<Head(s)>> \o InsertEntry(x, Tail(s))

RECURSIVE SortEntries(_)
SortEntries(s) ==
  IF s = <<>> THEN <<>>
  ELSE InsertEntry(Head(s), SortEntries(Tail(s)))

EntryIsImage(e) == IsImage(e.name)
MatchingEntries == SortEntries(SelectSeq(converted.entries, EntryIsImage))

FourDigits(k) ==
  <<DigitChar(k \div 1000), DigitChar((k \div 100) % 10),
    DigitChar((k \div 10) % 10), DigitChar(k % 10)>>

\* C1: a successful unpack of an archive with N matching and M other entries
\* leaves exactly N files in the output directory, one named 000k... for each
\* k in 1..N, and writes none of the M others, whatever the directory held before.
C1_ExactlyNFiles ==
  (UnpackReturned /\ unpacked.kind = "dir") =>
    LET names == DOMAIN fs[unpacked.path].files
    IN /\ Cardinality(names) = MatchCount
       /\ \A k \in 1..MatchCount :
            \E f \in names :
              /\ Len(f) >= 4
              /\ SubSeq(f, 1, 4) = FourDigits(k)
       /\ \A k \in 1..Len(wrote) : IsImage(wrote[k].src)

\* C2: the k-th matching entry in name order goes to the file named k padded to
\* 4 digits plus the entry's original extension; the N names are pairwise
\* distinct and each file holds the bytes of its source entry.
C2_SequentialNames ==
  (UnpackReturned /\ unpacked.kind = "dir") =>
    /\ Len(wrote) = Len(MatchingEntries)
    /\ \A k \in 1..Len(wrote) :
         /\ wrote[k].src = MatchingEntries[k].name
         /\ wrote[k].dest = FourDigits(k) \o MatchedExt(MatchingEntries[k].name)
         /\ wrote[k].data = MatchingEntries[k].data
         /\ fs[unpacked.path].files[wrote[k].dest] = MatchingEntries[k].data
    /\ \A k, m \in 1..Len(wrote) : k # m => wrote[k].dest # wrote[m].dest

\* C3: whichever of the listed failures happen (missing tool, mkdir, converter
\* exit status, archive not written or malformed, no images, image write error,
\* packer failure), unpack is attempted on every input file exactly once, in
\* command-line order, and the run ends with the "all tasks completed" report.
C3_EveryFileAttempted ==
  /\ \A k \in 1..Len(order) : order[k] = k
  /\ (pc \in {"done", "crashed"} /\ files # <<>> /\ why \notin {"mktemp", "read_error"}) =>
       /\ Len(order) = Len(files)
       /\ Printed("all_done")

\* C4: once unpack_comic_with_calibre has returned, by return or by exception,
\* neither the temporary directory nor converted.zip exists.
C4_TempRemoved ==
  (pc \in {"returned", "repack", "report", "loop", "finish", "done", "crashed"}) =>
    (~tmp.exists /\ tmp.zip.kind = "absent")

C4_Witness ==
  /\ pc = "crashed"
  /\ why = "write_error"
  /\ converted.kind = "zip"
  /\ Len(wrote) >= 1
  /\ ~tmp.exists

\* C5: an archive without any recognised image makes unpack return None, write
\* no file, and the repack step is not invoked for that input file.
C5_NoImages ==
  (/\ pc \in {"returned", "repack", "report"}
   /\ converted.kind = "zip"
   /\ MatchCount = 0) =>
    /\ unpacked = None
    /\ wrote = <<>>
    /\ stat[idx].repack = 0
    /\ stat[idx].kcc = 0

C5_Witness ==
  /\ pc = "report"
  /\ converted.kind = "zip"
  /\ Len(converted.entries) = MaxEntries
  /\ MatchCount = 0
  /\ Printed("no_images")
  /\ stat[idx].repack = 0

\* C6: when the converter leaves no valid zip at the archive path (corrupt, or
\* never written although the converter succeeded), unpack returns None and no
\* exception escapes.
C6_InvalidZipIsNone ==
  (/\ pc \in {"returned", "crashed"}
   /\ ConverterSucceeded
   /\ converted.kind # "zip") =>
    (pc = "returned" /\ unpacked = None)

C8_LinearPerFile ==
  \A k \in 1..Len(files) :
    /\ stat[k].unpack <= 1
    /\ stat[k].conv <= 1
    /\ stat[k].repack <= 1
    /\ stat[k].kcc <= 1
    /\ stat[k].kcc = 1 =>
         /\ stat[k].ret = "dir"
         /\ REPACK_AFTER_UNPACK
         /\ stat[k].kccfile = "found"
    /\ stat[k].conv = 1 => stat[k].which = "found"
    /\ stat[k].which = "missing" => (stat[k].conv = 0 /\ stat[k].repack = 0 /\ stat[k].kcc = 0)
    /\ stat[k].kccfile = "missing" => stat[k].kcc = 0
    /\ k > idx => stat[k] = NoStat

C8_Witness ==
  /\ pc = "done"
  /\ Len(files) = MaxFiles
  /\ stat[1].kccfile = "missing"
  /\ stat[1].ret = "dir"
  /\ stat[Len(files)].kcc = 1

\* C9: every failure of either step is caught and reported: a None from unpack
\* is preceded by a printed diagnostic, and nothing ends the program with an
\* uncaught exception.
C9_EveryFailureReported ==
  /\ pc # "crashed"
  /\ (UnpackReturned /\ unpacked = None) =>
       \/ Printed("no_ebook_convert")
       \/ Printed("calibre_failed")
       \/ Printed("bad_zip")
       \/ Printed("no_images")

\* C10 as stated: a None result means this call wrote no image file, a directory
\* result means all N were written.
C10_AllOrNothing ==
  UnpackReturned =>
    /\ unpacked = None => wrote = <<>>
    /\ unpacked.kind = "dir" => Len(wrote) = MatchCount

\* C10 amended: a directory result means all N matching entries were written;
\* a None result means the call wrote nothing, or BadZipFile was raised while
\* reading the k-th entry and exactly the first k-1 (fewer than N) are written.
C10_AllOrPrefix ==
  UnpackReturned =>
    /\ unpacked.kind = "dir" =>
         /\ Len(wrote) = MatchCount
         /\ \A k \in 1..Len(wrote) : wrote[k].src = MatchingEntries[k].name
    /\ unpacked = None =>
         \/ wrote = <<>>
         \/ /\ converted.kind = "zip"
            /\ Len(wrote) < MatchCount
            /\ \A k \in 1..Len(wrote) : wrote[k].src = MatchingEntries[k].name
            /\ Printed("bad_zip")

C10_Witness ==
  /\ UnpackReturned
  /\ unpacked = None
  /\ Len(wrote) = 1
  /\ MatchCount = 2

====
